---- MODULE Spec2Model ----
(***************************************************************************)
(* Model of model/train.py: the sample loader (load_data), the masked      *)
(* policy head of build_model, and the training driver (main): batch-size  *)
(* selection, the fit loop with its EarlyStopping and TerminateOnNaN       *)
(* callbacks, and the persistence / export steps.                          *)
(*                                                                         *)
(* Losses are fixed-point integers in units of 0.0001 (so min_delta = 1    *)
(* and 0.4893 is 4893).  Epochs are counted from 1; 0 means "none".        *)
(***************************************************************************)
EXTENDS Integers, Sequences, FiniteSets, TLC

(*************************** program constants *****************************)
MAX_HISTORY == 58
N_ACTION_FEATURES == 16
NUM_CARD_TYPES == 11
NUM_CARDS_IN_DECK == 23
MAX_CARDS_IN_DRAW_PILE == 13
MAX_INSERT_POSITIONS == 8
N_OUTPUTS == 2 * NUM_CARD_TYPES + MAX_INSERT_POSITIONS + 1

MinBatchSize == 32
MaxBatchSize == 2048
BatchesPerEpoch == 128
EPOCHS == 100
MinDelta == 1
Patience == 5

(******************************* bounds ************************************)
\* load_data is exercised on archives of 0..MaxSamples samples.
MaxSamples == 2
\* The first element of a stored array is one of 0..MaxSeed.
MaxSeed == 1
\* Batch-size selection is exercised on sample counts up to
\* BatchesPerEpoch * MaxBatchUnits + 1.
MaxBatchUnits == 2049
\* The policy head is exercised on vectors of 1..MaxWidth entries with
\* logits in -MaxLogit..MaxLogit.
MaxWidth == 3
MaxLogit == 1
\* The val_loss history is kept for runs of up to MaxRecorded epochs.
MaxRecorded == 9
\* In the full run the first validation loss is StartLoss.
StartLoss == 400

VARIABLES
    pc,            \* position of main: the next statement group to execute
    error,         \* "none", or the exception that ended the run
    args,          \* parsed command line: initial_weights
    batch,         \* the stored archive read by np.load
    X, y,          \* the tensors returned by load_data (None before)
    weights,       \* the model's weights: [epoch, finite, loaded]; the
                   \* weights after epoch e of training have epoch = e
    n_samples, batch_size,
    epoch,         \* number of epochs fit has run
    stop_training, \* model.stop_training
    es,            \* EarlyStopping: [best, wait, stopped_epoch, best_weights]
    nan_epoch,     \* epoch at which TerminateOnNaN fired (0: never)
    val_loss,      \* history.history['val_loss']
    files,         \* artifacts present in the output directory
    head           \* policy head: [logits, mask, policy]

vars == <<pc, error, args, batch, X, y, weights, n_samples, batch_size,
          epoch, stop_training, es, nan_epoch, val_loss, files, head>>

(************************ stored arrays and tensors ************************)
\* A stored flat array of `size` elements whose k-th element (from 0) is
\* seed + k: every element is distinguishable by its position.
Array(size, seed) == [size |-> size, seed |-> seed]

Elem(a, k) == a.seed + k

Materialize(a) == [k \in 1..a.size |-> Elem(a, k - 1)]

RECURSIVE Product(_)
Product(shape) ==
    IF shape = <<>> THEN 1 ELSE Head(shape) * Product(Tail(shape))

\* Row-major (C order) offset of the multi-index idx (0-based) in `shape`.
RECURSIVE RavelFrom(_, _, _)
RavelFrom(idx, shape, acc) ==
    IF idx = <<>> THEN acc
    ELSE RavelFrom(Tail(idx), Tail(shape), acc * Head(shape) + Head(idx))

Ravel(idx, shape) == RavelFrom(idx, shape, 0)

\* The multi-index of the k-th element (from 0) in row-major order.
RECURSIVE Unravel(_, _)
Unravel(k, shape) ==
    IF shape = <<>> THEN <<>>
    ELSE LET inner == Product(Tail(shape))
         IN <<k \div inner>> \o Unravel(k % inner, Tail(shape))

ShapeError == [error |-> "shape"]

\* ndarray.reshape(shape): a view of the same elements under a new shape,
\* or ValueError when the element counts differ.
Reshape(a, shape) ==
    IF a.size = Product(shape) THEN [shape |-> shape, data |-> a]
    ELSE ShapeError

IsTensor(t) == "shape" \in DOMAIN t

At(t, idx) == Elem(t.data, Ravel(idx, t.shape))

Flatten(t) ==
    [k \in 1..Product(t.shape) |-> At(t, Unravel(k - 1, t.shape))]

(******************************* load_data *********************************)
ArrayNames ==
    <<"X_history", "X_hands", "X_drawpile", "X_output_mask", "Y_policy", "Y_value">>

SampleShapeTransposed(name) ==
    CASE name = "X_history" -> <<N_ACTION_FEATURES, MAX_HISTORY>>
      [] name = "X_hands" -> <<3 * NUM_CARDS_IN_DECK>>
      [] name = "X_drawpile" -> <<NUM_CARD_TYPES, MAX_CARDS_IN_DRAW_PILE>>
      [] name = "X_output_mask" -> <<N_OUTPUTS>>
      [] name = "Y_policy" -> <<N_OUTPUTS>>
      [] name = "Y_value" -> <<1>>

\* The per-sample shape load_data gives each stored array (lines 119-125).
SampleShape(name) ==
    CASE name = "X_history" -> <<MAX_HISTORY, N_ACTION_FEATURES>>
      [] name = "X_hands" -> <<3 * NUM_CARDS_IN_DECK>>
      [] name = "X_drawpile" -> <<MAX_CARDS_IN_DRAW_PILE, NUM_CARD_TYPES>>
      [] name = "X_output_mask" -> <<N_OUTPUTS>>
      [] name = "Y_policy" -> <<N_OUTPUTS>>
      [] name = "Y_value" -> <<1>>

\* The tensors load_data builds, in the order it builds them.
Reshaped(b) ==
    LET n == b["Y_value"].size
    IN [name \in {ArrayNames[i] : i \in 1..Len(ArrayNames)} |->
            Reshape(b[name], <<n>> \o SampleShape(name))]

\* load_data(filename): <<X, Y>>, or the ValueError of the first reshape
\* that fails.
load_data(b) ==
    LET r == Reshaped(b)
    IN IF \E i \in 1..Len(ArrayNames) : ~IsTensor(r[ArrayNames[i]])
       THEN ShapeError
       ELSE [X |-> [history |-> r["X_history"], hands |-> r["X_hands"],
                    drawpile |-> r["X_drawpile"],
                    output_mask |-> r["X_output_mask"]],
             Y |-> [policy |-> r["Y_policy"], value |-> r["Y_value"]]]

(**************************** the policy head ******************************)
\* exp on integer logits, scaled to an integer: strictly positive and
\* strictly increasing, which is all the normalisation depends on.
Exp(z) == 2 ^ (z + MaxLogit)

RECURSIVE Sum(_)
Sum(s) == IF s = <<>> THEN 0 ELSE Head(s) + Sum(Tail(s))

\* Multiply()([policy_hidden_1, output_mask_input])
Multiply(a, b) == [i \in 1..Len(a) |-> a[i] * b[i]]

\* Softmax: the probability of position i is num[i] / den.
Softmax(z) ==
    LET e == [i \in 1..Len(z) |-> Exp(z[i])]
    IN [num |-> e, den |-> Sum(e)]

\* The policy output for the linear layer's logits and the output mask.
PolicyHead(logits, mask) == Softmax(Multiply(logits, mask))

(******************************** main *************************************)
None == [none |-> TRUE]

NoWeightsPath == "<None>"

InitialWeights == {NoWeightsPath, "", "prev/weights.h5"}

\* Python truthiness of args.initial_weights
Truthy(path) == path # NoWeightsPath /\ path # ""

\* An archive of n samples; extra[name] elements too many (or too few) in
\* the stored array `name`.
Archive(n, extra, seed) ==
    [name \in {ArrayNames[i] : i \in 1..Len(ArrayNames)} |->
        Array(n * Product(SampleShape(name)) + extra[name], seed)]

NoExtra == [name \in {ArrayNames[i] : i \in 1..Len(ArrayNames)} |-> 0]

NoEarlyStopping ==
    [best |-> <<>>, wait |-> 0, stopped_epoch |-> 0, best_weights |-> <<>>]

FreshWeights == [epoch |-> 0, finite |-> TRUE, loaded |-> FALSE]

\* Artifacts a previous run left in the output directory.
Stale ==
    {[name |-> n, run |-> "previous", weights |-> FreshWeights] :
        n \in {"original", "optimized", "weights.h5"}}

\* An artifact this run writes from the model as it is now.
Artifact(name) == [name |-> name, run |-> "this", weights |-> weights]

HasFile(name) == \E f \in files : f.name = name

\* line 147
LoadData ==
    /\ pc = "load_data" /\ error = "none"
    /\ LET r == load_data(batch)
       IN IF r = ShapeError
          THEN error' = "shape" /\ UNCHANGED <<pc, X, y>>
          ELSE X' = r.X /\ y' = r.Y /\ pc' = "build_model" /\ UNCHANGED error
    /\ UNCHANGED <<args, batch, weights, n_samples, batch_size, epoch,
                   stop_training, es, nan_epoch, val_loss, files, head>>

\* lines 149-157: X["history"][0] raises IndexError on an empty batch.
BuildModel ==
    /\ pc = "build_model" /\ error = "none"
    /\ IF X.history.shape[1] = 0
       THEN error' = "index" /\ UNCHANGED <<pc, weights>>
       ELSE weights' = FreshWeights /\ pc' = "load_weights" /\ UNCHANGED error
    /\ UNCHANGED <<args, batch, X, y, n_samples, batch_size, epoch,
                   stop_training, es, nan_epoch, val_loss, files, head>>

\* lines 159-161, the weights file loads.
LoadWeights ==
    /\ pc = "load_weights" /\ error = "none"
    /\ Truthy(args.initial_weights)
    /\ weights' = [weights EXCEPT !.loaded = TRUE]
    /\ pc' = "batch_size"
    /\ UNCHANGED <<error, args, batch, X, y, n_samples, batch_size, epoch,
                   stop_training, es, nan_epoch, val_loss, files, head>>

\* lines 159-161, model.load_weights raises (no such file, other shapes).
LoadWeightsFails ==
    /\ pc = "load_weights" /\ error = "none"
    /\ Truthy(args.initial_weights)
    /\ error' = "weights"
    /\ UNCHANGED <<pc, args, batch, X, y, weights, n_samples, batch_size,
                   epoch, stop_training, es, nan_epoch, val_loss, files, head>>

SkipWeightsAlways ==
    /\ pc = "load_weights" /\ error = "none"
    /\ pc' = "batch_size"
    /\ UNCHANGED <<error, args, batch, X, y, weights, n_samples, batch_size,
                   epoch, stop_training, es, nan_epoch, val_loss, files, head>>

\* line 159, the condition is false.
SkipWeights ==
    /\ pc = "load_weights" /\ error = "none"
    /\ ~Truthy(args.initial_weights)
    /\ pc' = "batch_size"
    /\ UNCHANGED <<error, args, batch, X, y, weights, n_samples, batch_size,
                   epoch, stop_training, es, nan_epoch, val_loss, files, head>>

\* lines 166-167
BatchInit ==
    /\ pc = "batch_size" /\ error = "none"
    /\ n_samples' = y.value.shape[1]
    /\ batch_size' = MinBatchSize
    /\ pc' = "batch_loop"
    /\ UNCHANGED <<error, args, batch, X, y, weights, epoch, stop_training,
                   es, nan_epoch, val_loss, files, head>>

BatchDoubleUncapped ==
    /\ pc = "batch_loop" /\ error = "none"
    /\ batch_size * BatchesPerEpoch < n_samples
    /\ batch_size' = batch_size * 2
    /\ UNCHANGED <<pc, error, args, batch, X, y, weights, n_samples, epoch,
                   stop_training, es, nan_epoch, val_loss, files, head>>

\* lines 168-169, one iteration of the loop
BatchDouble ==
    /\ pc = "batch_loop" /\ error = "none"
    /\ batch_size * BatchesPerEpoch < n_samples /\ batch_size < MaxBatchSize
    /\ batch_size' = batch_size * 2
    /\ UNCHANGED <<pc, error, args, batch, X, y, weights, n_samples, epoch,
                   stop_training, es, nan_epoch, val_loss, files, head>>

\* lines 168, 170-171: the loop ends and fit begins (on_train_begin).
BatchDone ==
    /\ pc = "batch_loop" /\ error = "none"
    /\ ~(batch_size * BatchesPerEpoch < n_samples /\ batch_size < MaxBatchSize)
    /\ pc' = "fit"
    /\ epoch' = 0 /\ stop_training' = FALSE /\ es' = NoEarlyStopping
    /\ nan_epoch' = 0 /\ val_loss' = <<>>
    /\ UNCHANGED <<error, args, batch, X, y, weights, n_samples, batch_size,
                   files, head>>

(****************************** the fit loop *******************************)
IsImprovementOrEqual(current, best) ==
    best = <<>> \/ current + MinDelta <= best[1]

\* EarlyStopping.monitor_op(current - min_delta, best) for monitor='val_loss':
\* np.less, with min_delta negated; best starts at infinity (<<>>).
IsImprovement(current, best) ==
    best = <<>> \/ current + MinDelta < best[1]

\* EarlyStopping.on_epoch_end at the end of epoch e, with validation loss
\* `current` and the model's weights w (patience=5, restore_best_weights).
OnEpochEnd(s, e, current, w) ==
    IF IsImprovement(current, s.best)
    THEN [s EXCEPT !.best = <<current>>, !.wait = 0, !.best_weights = <<w>>]
    ELSE IF s.wait + 1 >= Patience
         THEN [s EXCEPT !.wait = s.wait + 1, !.stopped_epoch = e]
         ELSE [s EXCEPT !.wait = s.wait + 1]

FitEpochUnbounded(v) ==
    /\ pc = "fit" /\ error = "none"
    /\ ~stop_training
    /\ LET e == epoch + 1
           trained == [weights EXCEPT !.epoch = e]
           s == OnEpochEnd(es, e, v, trained)
       IN /\ epoch' = e
          /\ es' = s
          /\ stop_training' = (s.stopped_epoch = e)
          /\ weights' = IF s.stopped_epoch = e THEN s.best_weights[1] ELSE trained
          /\ val_loss' = IF e <= MaxRecorded THEN Append(val_loss, v) ELSE <<>>
    /\ UNCHANGED <<pc, error, args, batch, X, y, n_samples, batch_size,
                   nan_epoch, files, head>>

\* One epoch of fit (epochs=100) in which every loss is finite: the model is
\* trained, validated with loss v, and the callbacks see the epoch's end.
\* On an early stop the best weights are restored.
FitEpoch(v) ==
    /\ pc = "fit" /\ error = "none"
    /\ ~stop_training /\ epoch < EPOCHS
    /\ LET e == epoch + 1
           trained == [weights EXCEPT !.epoch = e]
           s == OnEpochEnd(es, e, v, trained)
       IN /\ epoch' = e
          /\ es' = s
          /\ stop_training' = (s.stopped_epoch = e)
          /\ weights' = IF s.stopped_epoch = e THEN s.best_weights[1] ELSE trained
          /\ val_loss' = IF e <= MaxRecorded THEN Append(val_loss, v) ELSE <<>>
    /\ UNCHANGED <<pc, error, args, batch, X, y, n_samples, batch_size,
                   nan_epoch, files, head>>

\* One epoch of fit in which a batch's loss is NaN or Inf: TerminateOnNaN
\* sets stop_training, the rest of the epoch and its validation are skipped,
\* so EarlyStopping has no val_loss to look at.
FitNaN ==
    /\ pc = "fit" /\ error = "none"
    /\ ~stop_training /\ epoch < EPOCHS
    /\ epoch' = epoch + 1
    /\ weights' = [weights EXCEPT !.epoch = epoch + 1, !.finite = FALSE]
    /\ stop_training' = TRUE
    /\ nan_epoch' = epoch + 1
    /\ UNCHANGED <<pc, error, args, batch, X, y, n_samples, batch_size, es,
                   val_loss, files, head>>

\* fit returns its History: the epochs are used up or a callback asked to
\* stop.  Nothing is raised.
FitReturn ==
    /\ pc = "fit" /\ error = "none"
    /\ stop_training \/ epoch = EPOCHS
    /\ pc' = "save"
    /\ UNCHANGED <<error, args, batch, X, y, weights, n_samples, batch_size,
                   epoch, stop_training, es, nan_epoch, val_loss, files, head>>

(************************* persistence and export **************************)
SaveModelAndWeights ==
    /\ pc = "save" /\ error = "none"
    /\ files' = {Artifact("original"), Artifact("weights.h5")}
    /\ pc' = "convert"
    /\ UNCHANGED <<error, args, batch, X, y, weights, n_samples, batch_size,
                   epoch, stop_training, es, nan_epoch, val_loss, head>>

\* lines 185-189: the output directory is removed, then model.save writes
\* <output>/original.
SaveModel ==
    /\ pc = "save" /\ error = "none"
    /\ files' = {Artifact("original")}
    /\ pc' = "convert"
    /\ UNCHANGED <<error, args, batch, X, y, weights, n_samples, batch_size,
                   epoch, stop_training, es, nan_epoch, val_loss, head>>

\* lines 190-196: converter.convert() succeeds.
Convert ==
    /\ pc = "convert" /\ error = "none"
    /\ HasFile("original")
    /\ pc' = "save_optimized"
    /\ UNCHANGED <<error, args, batch, X, y, weights, n_samples, batch_size,
                   epoch, stop_training, es, nan_epoch, val_loss, files, head>>

\* lines 190-196: the conversion raises.
ConvertFails ==
    /\ pc = "convert" /\ error = "none"
    /\ error' = "export"
    /\ UNCHANGED <<pc, args, batch, X, y, weights, n_samples, batch_size,
                   epoch, stop_training, es, nan_epoch, val_loss, files, head>>

\* lines 197-198: converter.save(args.output)
SaveOptimized ==
    /\ pc = "save_optimized" /\ error = "none"
    /\ files' = files \cup {Artifact("optimized")}
    /\ pc' = "save_weights"
    /\ UNCHANGED <<error, args, batch, X, y, weights, n_samples, batch_size,
                   epoch, stop_training, es, nan_epoch, val_loss, head>>

\* lines 199-200: model.save_weights(<output>/weights.h5)
SaveWeights ==
    /\ pc = "save_weights" /\ error = "none"
    /\ files' = files \cup {Artifact("weights.h5")}
    /\ pc' = "plots"
    /\ UNCHANGED <<error, args, batch, X, y, weights, n_samples, batch_size,
                   epoch, stop_training, es, nan_epoch, val_loss, head>>

\* lines 201-203: plot_model and plot_metrics
Plots ==
    /\ pc = "plots" /\ error = "none"
    /\ files' = files \cup {Artifact("model.pdf"), Artifact("metrics.pdf")}
    /\ pc' = "done"
    /\ UNCHANGED <<error, args, batch, X, y, weights, n_samples, batch_size,
                   epoch, stop_training, es, nan_epoch, val_loss, head>>

\* The forward pass of the policy head on one sample.
ApplyPolicyHead ==
    /\ pc = "policy" /\ head.policy = None
    /\ head' = [head EXCEPT !.policy = PolicyHead(head.logits, head.mask)]
    /\ UNCHANGED <<pc, error, args, batch, X, y, weights, n_samples,
                   batch_size, epoch, stop_training, es, nan_epoch, val_loss,
                   files>>

(***************************** specifications ******************************)
\* What every run starts from, whatever the input.
Blank ==
    /\ error = "none"
    /\ n_samples = 0 /\ batch_size = 0
    /\ epoch = 0 /\ stop_training = FALSE /\ es = NoEarlyStopping
    /\ nan_epoch = 0 /\ val_loss = <<>>

HandsExtra == [NoExtra EXCEPT !["X_hands"] = 1]

MainSampleCounts == {0, 4097}

\* The full run of main.
Init ==
    /\ Blank
    /\ pc = "load_data"
    /\ args \in [initial_weights : InitialWeights]
    /\ batch \in {Archive(n, NoExtra, 0) : n \in MainSampleCounts}
                    \cup {Archive(4097, HandsExtra, 0)}
    /\ X = None /\ y = None /\ weights = None
    /\ files \in {{}, Stale}
    /\ head = None

\* The validation losses of the full run: the first is StartLoss, a later
\* one repeats the best so far or improves on it by more than min_delta.
NextLosses ==
    IF es.best = <<>> THEN {StartLoss}
    ELSE {v \in {es.best[1] - MinDelta - 1, es.best[1]} : v >= 0}

Next ==
    \/ LoadData
    \/ BuildModel
    \/ LoadWeights
    \/ LoadWeightsFails
    \/ SkipWeights
    \/ BatchInit
    \/ BatchDouble
    \/ BatchDone
    \/ \E v \in NextLosses : FitEpoch(v)
    \/ FitNaN
    \/ FitReturn
    \/ SaveModel
    \/ Convert
    \/ ConvertFails
    \/ SaveOptimized
    \/ SaveWeights
    \/ Plots

Spec == Init /\ [][Next]_vars

\* main at line 166, after a successful load of n samples and build_model.
AtBatchSize(n) ==
    /\ Blank
    /\ pc = "batch_size"
    /\ args = [initial_weights |-> NoWeightsPath]
    /\ batch = Archive(n, NoExtra, 0)
    /\ X = load_data(batch).X /\ y = load_data(batch).Y
    /\ weights = FreshWeights
    /\ files = {}
    /\ head = None

SampleCounts ==
    {BatchesPerEpoch * k + d : k \in 0..MaxBatchUnits, d \in {0, 1}} \ {0}

\* Batch-size selection on its own, over a wide range of sample counts.
InitBatch == \E n \in SampleCounts : AtBatchSize(n)

NextBatch ==
    \/ BatchInit
    \/ BatchDouble
    \/ BatchDone

SpecBatch == InitBatch /\ [][NextBatch]_vars

\* The fit loop on its own, from the state main enters it in, over runs
\* whose losses stay finite, with validation losses around the 0.0001
\* threshold.
ValLosses == {5000, 4900, 4895, 4894, 4893}

InitFit ==
    /\ error = "none"
    /\ n_samples = 4097 /\ batch_size = 64
    /\ epoch = 0 /\ stop_training = FALSE /\ es = NoEarlyStopping
    /\ nan_epoch = 0 /\ val_loss = <<>>
    /\ pc = "fit"
    /\ args = [initial_weights |-> NoWeightsPath]
    /\ batch = Archive(4097, NoExtra, 0)
    /\ X = load_data(batch).X /\ y = load_data(batch).Y
    /\ weights = FreshWeights
    /\ files = {}
    /\ head = None

NextFit ==
    \/ \E v \in ValLosses : FitEpoch(v)
    \/ FitReturn

SpecFit == InitFit /\ [][NextFit]_vars

\* load_data on its own, over archives whose arrays have the right size,
\* one element more or less, or one whole sample more.
Extras ==
    {e \in [{ArrayNames[i] : i \in 1..Len(ArrayNames)} ->
                {-1, 0, 1} \cup {Product(SampleShape(ArrayNames[i])) :
                                    i \in 1..Len(ArrayNames)}] :
        /\ e["Y_value"] = 0
        /\ \A i \in 1..Len(ArrayNames) :
              e[ArrayNames[i]] \in {-1, 0, 1, Product(SampleShape(ArrayNames[i]))}}

InitLoad ==
    /\ Blank
    /\ pc = "load_data"
    /\ args = [initial_weights |-> NoWeightsPath]
    /\ \E n \in 0..MaxSamples, e \in Extras, seed \in 0..MaxSeed :
          /\ \A i \in 1..Len(ArrayNames) :
                n * Product(SampleShape(ArrayNames[i])) + e[ArrayNames[i]] >= 0
          /\ batch = Archive(n, e, seed)
    /\ X = None /\ y = None /\ weights = None
    /\ files = {}
    /\ head = None

NextLoad == LoadData

SpecLoad == InitLoad /\ [][NextLoad]_vars

\* The policy head on its own, over small logit and mask vectors.
InitPolicy ==
    /\ Blank
    /\ pc = "policy"
    /\ args = [initial_weights |-> NoWeightsPath]
    /\ batch = Archive(1, NoExtra, 0)
    /\ X = None /\ y = None /\ weights = FreshWeights
    /\ files = {}
    /\ \E w \in 1..MaxWidth :
          \E l \in [1..w -> -MaxLogit..MaxLogit], m \in [1..w -> {0, 1}] :
              head = [logits |-> l, mask |-> m, policy |-> None]

NextPolicy == ApplyPolicyHead

SpecPolicy == InitPolicy /\ [][NextPolicy]_vars

(******************************** claims ***********************************)
IsPowerOfTwo(b) == \E k \in 0..30 : b = 2 ^ k

\* C1: the batch size chosen by the selection loop is a power of two
\* between 32 and 2048, whatever the sample count.
C1_BatchSizeInRange ==
    pc = "fit" => 32 <= batch_size /\ batch_size <= 2048 /\ IsPowerOfTwo(batch_size)

\* C1 witness: the loop has run up to the cap of 2048.
C1_Witness == pc = "fit" /\ batch_size = 2048 /\ n_samples > 2048 * 128

\* The largest power of two b in [32, 2048] with b * 128 < n, or 32 when
\* there is none.
LargestBatchBelow(n) ==
    LET S == {b \in 32..2048 : IsPowerOfTwo(b) /\ b * 128 < n}
    IN IF S = {} THEN 32 ELSE CHOOSE b \in S : \A c \in S : c <= b

\* C2: the chosen batch size is the largest power of two in [32, 2048]
\* with b * 128 < N (32 when there is none).
C2_LargestBelow == pc = "fit" => batch_size = LargestBatchBelow(n_samples)

CeilDiv(a, b) == (a + b - 1) \div b

\* C3: with at least 4096 samples the chosen batch size gives at least 128
\* batches per epoch, ceil(N / b) >= 128.
C3_AtLeast128Batches ==
    pc = "fit" /\ n_samples >= 4096 => CeilDiv(n_samples, batch_size) >= 128

\* C4: with a mask that has a nonzero entry, the policy gives probability
\* exactly zero to every masked position, and the probabilities of the
\* unmasked positions sum to 1.
C4_MaskedZero ==
    (pc = "policy" /\ "num" \in DOMAIN head.policy
        /\ \E i \in DOMAIN head.mask : head.mask[i] # 0)
    => /\ \A i \in DOMAIN head.mask :
            head.mask[i] = 0 => head.policy.num[i] = 0
       /\ Sum([i \in DOMAIN head.mask |->
                  IF head.mask[i] # 0 THEN head.policy.num[i] ELSE 0])
            = head.policy.den

\* The stages of the training lifecycle, read off main's position.
Stage ==
    CASE pc = "load_data" -> "Init"
      [] pc = "build_model" -> "DataLoaded"
      [] pc = "load_weights" -> "ModelBuilt"
      [] pc \in {"batch_size", "batch_loop"} ->
            IF weights.loaded THEN "OptionalWeightsLoaded" ELSE "ModelBuilt"
      [] pc \in {"fit", "save"} -> "Fitting"
      [] pc \in {"convert", "save_optimized"} -> "Saved"
      [] pc \in {"save_weights", "plots"} -> "Exported"
      [] pc = "done" -> "Terminal"

StageEdges ==
    {<<"Init", "DataLoaded">>, <<"DataLoaded", "ModelBuilt">>,
     <<"ModelBuilt", "OptionalWeightsLoaded">>, <<"ModelBuilt", "Fitting">>,
     <<"OptionalWeightsLoaded", "Fitting">>, <<"Fitting", "Saved">>,
     <<"Saved", "Exported">>, <<"Exported", "Terminal">>}

\* C5: once a loss is non-finite, no further epoch runs, and the run never
\* gets to the Saved, Exported and Terminal stages: it writes no artifact.
C5_NaNIsFatal ==
    nan_epoch # 0 =>
        /\ epoch = nan_epoch
        /\ Stage \notin {"Saved", "Exported", "Terminal"}
        /\ \A f \in files : f.run # "this"

Mismatched(b, perSample) ==
    {name \in DOMAIN perSample :
        b[name].size # b["Y_value"].size * perSample[name]}

LoadedTensors == [X_history |-> X.history, X_hands |-> X.hands,
                  X_drawpile |-> X.drawpile, X_output_mask |-> X.output_mask,
                  Y_policy |-> y.policy, Y_value |-> y.value]

\* load_data has either failed with a shape error on an archive with a
\* mismatched array, or returned, from an archive with none, tensors of
\* leading dimension N and the per-sample shapes `shapes`, each holding
\* the stored elements in their stored order.
LoadDataContract(shapes) ==
    LET perSample == [name \in DOMAIN shapes |-> Product(shapes[name])]
        n == batch["Y_value"].size
    IN /\ error = "shape" => Mismatched(batch, perSample) # {}
       /\ pc = "build_model" =>
            /\ error = "none"
            /\ Mismatched(batch, perSample) = {}
            /\ \A name \in DOMAIN shapes :
                  /\ LoadedTensors[name].shape = <<n>> \o shapes[name]
                  /\ Flatten(LoadedTensors[name]) = Materialize(batch[name])

\* C8 as stated: the contract with per-sample shapes history [58,16],
\* hands [69], drawpile [13,11], output_mask [38], policy [38], value [1].
C8_LoadDataShapes38 ==
    LoadDataContract([X_history |-> <<58, 16>>, X_hands |-> <<69>>,
                      X_drawpile |-> <<13, 11>>, X_output_mask |-> <<38>>,
                      Y_policy |-> <<38>>, Y_value |-> <<1>>])

\* C8 amended: the same contract with output_mask [31] and policy [31]
\* (N_OUTPUTS is 2 * 11 + 8 + 1 = 31).
C8_LoadDataShapes31 ==
    LoadDataContract([X_history |-> <<58, 16>>, X_hands |-> <<69>>,
                      X_drawpile |-> <<13, 11>>, X_output_mask |-> <<31>>,
                      Y_policy |-> <<31>>, Y_value |-> <<1>>])

\* C8 witness: load_data has returned the tensors of a two-sample archive.
C8_Witness == pc = "build_model" /\ batch["Y_value"].size = 2

WrittenNames == {f.name : f \in {g \in files : g.run = "this"}}

\* C9 as stated: when the export transform runs (or has failed), this run
\* has written both <output>/original and <output>/weights.h5.
C9_BothBeforeExport ==
    pc \in {"convert", "save_optimized"} =>
        {"original", "weights.h5"} \subseteq WrittenNames

\* C9 amended: when the export transform runs (or has failed), the output
\* directory holds the full model artifact of this run and nothing else;
\* weights.h5 is written only after the optimized artifact.
C9_FullModelBeforeExport ==
    /\ pc \in {"convert", "save_optimized"} =>
          files = {[name |-> "original", run |-> "this", weights |-> weights]}
    /\ "weights.h5" \in WrittenNames =>
          {"original", "optimized"} \subseteq WrittenNames

\* C9 witness: the export has failed, leaving only the full model artifact.
C9_Witness == error = "export" /\ WrittenNames = {"original"}

FitEnded ==
    pc \in {"save", "convert", "save_optimized", "save_weights", "plots", "done"}

\* All 100 epochs ran to their end.
Exhausted == epoch = 100 /\ nan_epoch = 0

EarlyStopped == es.stopped_epoch # 0

NaNAborted == nan_epoch # 0

CausesHolding ==
    Cardinality({c \in {"exhausted", "early stop", "abort"} :
        \/ c = "exhausted" /\ Exhausted
        \/ c = "early stop" /\ EarlyStopped
        \/ c = "abort" /\ NaNAborted})

\* C10 as stated: the fit loop never runs more than 100 epochs, and when it
\* has ended exactly one of the three causes holds.
C10_ExactlyOneCause ==
    /\ epoch <= 100
    /\ FitEnded => CausesHolding = 1

\* C10 amended: the fit loop never runs more than 100 epochs, and when it
\* has ended at least one of the three causes holds; the abort excludes the
\* other two, and before the 100th epoch exactly one cause holds.
C10_AtLeastOneCause ==
    /\ epoch <= 100
    /\ FitEnded =>
          /\ CausesHolding >= 1
          /\ NaNAborted => CausesHolding = 1
          /\ epoch < 100 => CausesHolding = 1

\* C10 witness: the loop has ended on its 100th epoch with early stopping
\* firing in that same epoch.
C10_Witness == FitEnded /\ Exhausted /\ es.stopped_epoch = 100

\* The epoch whose validation loss is EarlyStopping's best after the first
\* e epochs of history h: the last epoch that was lower than the best
\* before it by more than 0.0001 (0 when e = 0).
RECURSIVE BestEpoch(_, _)
BestEpoch(h, e) ==
    IF e = 0 THEN 0
    ELSE LET b == BestEpoch(h, e - 1)
         IN IF b = 0 \/ h[e] < h[b] - 1 THEN e ELSE b

\* The lowest validation loss of the first e epochs of h.
RECURSIVE MinLoss(_, _)
MinLoss(h, e) ==
    IF e = 1 THEN h[1]
    ELSE IF h[e] < MinLoss(h, e - 1) THEN h[e] ELSE MinLoss(h, e - 1)

\* Epoch k of h improves on the best value seen before it by at least 0.0001.
ImprovesByAtLeast(h, k) == k = 1 \/ h[k] <= MinLoss(h, k - 1) - 1

\* At epoch e of h, 5 consecutive epochs have passed without improvement.
FiveWithoutImprovement(h, e) ==
    e > 5 /\ \A k \in (e - 4)..e : ~ImprovesByAtLeast(h, k)

\* The whole run so far is in the val_loss history.
Recorded == epoch >= 1 /\ Len(val_loss) = epoch

ExampleLosses == <<5000, 4900, 4895, 4893, 4893, 4893>>

\* C6 as stated: the fit loop has stopped early exactly when the current
\* epoch is the first at which 5 consecutive epochs have passed without an
\* improvement of at least 0.0001 on the lowest loss so far; the weights
\* are then those of the first epoch with the lowest loss; the losses
\* 0.5, 0.49, 0.4895, 0.4893, 0.4893, 0.4893 trigger the stop, with the
\* weights of epoch 4.
C6_StopAtLeastDelta ==
    Recorded =>
        /\ EarlyStopped <=> FiveWithoutImprovement(val_loss, epoch)
        /\ EarlyStopped =>
              /\ \A e \in 1..(epoch - 1) : ~FiveWithoutImprovement(val_loss, e)
              /\ val_loss[weights.epoch] = MinLoss(val_loss, epoch)
              /\ \A k \in 1..(weights.epoch - 1) :
                    val_loss[k] # val_loss[weights.epoch]
        /\ val_loss = ExampleLosses => EarlyStopped /\ weights.epoch = 4

\* C6 amended: at every epoch of a run, the fit loop has stopped early
\* exactly when that epoch is 5 epochs past the best epoch (so it stops at
\* the first such epoch), an epoch becoming the best when its loss is
\* lower than the best before it by more than 0.0001; the weights are then
\* those of the best epoch, and those of the current epoch otherwise.
\* After the losses 0.5, 0.49, 0.4895, 0.4893, 0.4893, 0.4893 the loop has
\* not stopped (2 epochs past the best, epoch 4); it stops after three
\* more epochs at 0.4893, with the weights of epoch 4.
C6_StopMoreThanDelta ==
    Recorded =>
        LET b == BestEpoch(val_loss, epoch)
        IN /\ EarlyStopped <=> epoch - b = 5
           /\ EarlyStopped =>
                 es.stopped_epoch = epoch /\ stop_training /\ weights.epoch = b
           /\ ~EarlyStopped => epoch - b < 5 /\ weights.epoch = epoch
           /\ val_loss = ExampleLosses =>
                 ~EarlyStopped /\ b = 4 /\ es.wait = 2
           /\ val_loss = ExampleLosses \o <<4893, 4893, 4893>> =>
                 EarlyStopped /\ weights.epoch = 4

\* C6 witness: the example losses, held at 0.4893 for three more epochs,
\* have stopped the loop at epoch 9 with the weights of epoch 4.
C6_Witness ==
    /\ val_loss = ExampleLosses \o <<4893, 4893, 4893>>
    /\ es.stopped_epoch = 9 /\ stop_training
    /\ weights.epoch = 4

====
